---- MODULE Spec2Model ----
(***************************************************************************)
(* A model of notify-slack-app.py: the near-duplicate test and the         *)
(* deduplicator of class Log, the cursor polling of ElasticSearchLoader,   *)
(* the Slack calls of SlackSender and the loop of Watcher.                 *)
(***************************************************************************)
EXTENDS Integers, Sequences, FiniteSets, TLC

VARIABLES
    \* --- Log._is_duplicate applied to one pair of messages
    s1, s2, called, ret,
    \* --- Log.remove_useless_logs applied to one list, then to its own output
    given,      \* the list as first handed over
    items,      \* the list, which remove_useless_logs rewrites in place
    once,       \* the list as the first application left it
    pass,       \* how many times remove_useless_logs has been applied
    \* --- the daemon: Watcher.watcher, ElasticSearchLoader, SlackSender
    pc,         \* where Watcher.watcher stands
    cursor,     \* ElasticSearchLoader._last_update_time
    limit,      \* the page size _load_json asks for
    producers,  \* which documents producers may index into the backend
    source,     \* the documents the backend holds that match the query's filters,
                \* in the order its sort by @timestamp gives them
    result,     \* load()'s local dict: application -> list of Log
    logs,       \* watcher()'s local dict handed to send_data
    hist        \* what the run has done so far (calls made, records consumed)

dupVars == <<s1, s2, called, ret>>
dedupVars == <<given, items, once, pass>>
daemonVars == <<pc, cursor, limit, producers, source, result, logs, hist>>
vars == <<s1, s2, called, ret, given, items, once, pass,
          pc, cursor, limit, producers, source, result, logs, hist>>

----------------------------------------------------------------------------
(* Bounds of the model. *)

\* longest message handed to _is_duplicate on its own
MaxLen == 11
\* longest list handed to remove_useless_logs on its own
MaxItems == 3
\* documents indexed into the backend during a run
MaxRecords == 2
\* instants are 0..MaxTime
MaxTime == 2
\* page sizes are 1..MaxPageSize
MaxPageSize == 2
\* iterations of the Watcher loop
MaxCycles == 2

\* records one poll cycle may accumulate: as many as the backend may hold (a
\* cycle that fetches a document again and again would grow for ever)
MaxBatch == MaxRecords

----------------------------------------------------------------------------
(* Program constants. *)

DUPLICATE_THRESHOLD == 10

Min(a, b) == IF a < b THEN a ELSE b
Max(a, b) == IF a > b THEN a ELSE b

\* Python's None where a message is expected; messages are sequences of characters
None == <<"None">>

Rep(c, n) == [i \in 1..n |-> c]

----------------------------------------------------------------------------
(* Log._is_duplicate *)

\* str.lower() on one character of the alphabet the model uses
LowerChar(c) ==
    CASE c = "A" -> "a"
      [] c = "B" -> "b"
      [] c = "C" -> "c"
      [] c = "D" -> "d"
      [] OTHER -> c

lower(s) == [i \in 1..Len(s) |-> LowerChar(s[i])]

\* the early exit's comparison written with > instead of >=
EarlyExitStrict(count, threshold) == count > threshold

\* line 150: if count >= threshold: return True
EarlyExit(count, threshold) == count >= threshold

\* line 156: return max(result, count) > threshold
FinalCheck(res, count, threshold) == Max(res, count) > threshold

RECURSIVE DupScan(_, _, _, _, _, _)
\* the for loop of lines 147-154 from position index on (1-based here), then line 156
DupScan(a, b, threshold, index, count, res) ==
    IF index > Min(Len(a), Len(b))
    THEN FinalCheck(res, count, threshold)
    ELSE IF a[index] = b[index]
         THEN IF EarlyExit(count + 1, threshold)
              THEN TRUE
              ELSE DupScan(a, b, threshold, index + 1, count + 1, res)
         ELSE DupScan(a, b, threshold, index + 1, 0, Max(res, count))

\* the answer for a missing message being True
ReturnOnNoneTrue(a, b) == TRUE

\* line 139: return False
ReturnOnNone(a, b) == FALSE

_is_duplicate(a, b, threshold) ==
    IF a = None \/ b = None
    THEN ReturnOnNone(a, b)
    ELSE DupScan(lower(a), lower(b), threshold, 1, 0, 0)

----------------------------------------------------------------------------
(* The pairs of messages _is_duplicate is tried on. *)

\* s1 is a prefix of aBaBaB...; s2 is any word over {A, b}: position i matches
\* after case folding exactly when s2[i] is the letter s1 has there, so every
\* pattern of matching and mismatching positions occurs.
BasePattern(n) == [i \in 1..n |-> IF i % 2 = 1 THEN "a" ELSE "B"]

FirstMessages == {BasePattern(n) : n \in 0..MaxLen} \cup {None}
SecondMessages == UNION {[1..n -> {"A", "b"}] : n \in 0..MaxLen} \cup {None}

\* the daemon not running
DaemonIdle ==
    /\ pc = "off" /\ cursor = 0 /\ limit = 1
    /\ producers = "none" /\ source = <<>> /\ result = <<>> /\ logs = <<>>
    /\ hist = <<>>

DedupIdle == given = <<>> /\ items = <<>> /\ once = <<>> /\ pass = 0

InitDup ==
    /\ s1 \in FirstMessages
    /\ s2 \in SecondMessages
    /\ called = FALSE
    /\ ret = FALSE
    /\ DedupIdle
    /\ DaemonIdle

CallIsDuplicate ==
    /\ ~called
    /\ called' = TRUE
    /\ ret' = _is_duplicate(s1, s2, DUPLICATE_THRESHOLD)
    /\ UNCHANGED <<s1, s2, dedupVars, daemonVars>>

NextDup == CallIsDuplicate

SpecDup == InitDup /\ [][NextDup]_vars

----------------------------------------------------------------------------
\* the positions, within the shorter length, where the case-folded messages agree
Agree(a, b, i) == LowerChar(a[i]) = LowerChar(b[i])

\* a run of at least n consecutive agreeing positions within the shorter length
HasAlignedRun(a, b, n) ==
    \E p \in 1..(Min(Len(a), Len(b)) - n + 1) :
        \A k \in 0..(n - 1) : Agree(a, b, p + k)

\* C4: on two non-null messages _is_duplicate(.., .., 10) answers true exactly
\* when the case-folded messages agree on at least 10 consecutive positions
\* within the shorter length.
C4_DuplicateIffAlignedRun ==
    (called /\ s1 # None /\ s2 # None)
        => (ret <=> HasAlignedRun(s1, s2, DUPLICATE_THRESHOLD))

\* a call on a pair whose only long run has exactly 10 positions, mixed case
C4_Witness ==
    /\ called /\ ret
    /\ s1 # None /\ s2 # None
    /\ HasAlignedRun(s1, s2, DUPLICATE_THRESHOLD)
    /\ ~HasAlignedRun(s1, s2, DUPLICATE_THRESHOLD + 1)
    /\ Len(s1) # Len(s2)

\* C14: _is_duplicate answers false whenever s1 or s2 is None, whatever the
\* other message is (None too, or a message of any length).
C14_NoneNeverDuplicate ==
    (called /\ (s1 = None \/ s2 = None)) => ~ret

\* a call with None against a message long enough to hold a run of 10
C14_Witness ==
    /\ called /\ ~ret
    /\ s1 = None
    /\ s2 # None /\ Len(s2) >= DUPLICATE_THRESHOLD

----------------------------------------------------------------------------
(* class Log: equality, and remove_useless_logs *)

\* Messages the deduplicator and the daemon are run on: M1 and M2 agree (after
\* case folding) on positions 1..10, M2 and M3 on positions 11..20, M1 and M3
\* nowhere; Short is below the threshold's length.
M1 == Rep("a", 10) \o Rep("b", 10)
M2 == Rep("A", 10) \o Rep("c", 10)
M3 == Rep("d", 10) \o Rep("c", 10)
Short == <<"n", "p", "e">>

\* A Log object. src says where the object was made: its position in the list
\* first handed to remove_useless_logs or, for a Log the loader parsed, the
\* iteration of the Watcher loop that parsed it.
MkLog(src, application, severity, message, stacktrace, date) ==
    [src |-> src, application |-> application, severity |-> severity,
     message |-> message, stacktrace |-> stacktrace, date |-> date]

\* line 109: isinstance(other, Log.__class__). Log.__class__ is the metaclass
\* type, and a Log object is not a class.
IsInstanceOfLogClass(other) == FALSE

\* Log.__eq__, lines 108-116
Log__eq__(self, other) ==
    IF ~IsInstanceOfLogClass(other)
    THEN FALSE
    ELSE /\ self.application = other.application
         /\ self.severity = other.severity
         /\ self.date = other.date
         /\ self.message = self.message
         /\ self.stacktrace = self.stacktrace

\* A Python set of the objects of list its, as the set of their positions in its.
\* Two entries are one element when they are the same object or compare equal.
SameElement(its, i, j) == i = j \/ Log__eq__(its[i], its[j])

\* line 160: tmp_set = set(items)
SetOfList(its) ==
    {i \in 1..Len(its) : ~\E k \in 1..(i - 1) : SameElement(its, k, i)}

\* items[j] in tmp_set
InSet(its, tmp_set, j) == \E k \in tmp_set : SameElement(its, k, j)

\* the removal leaving the set as it was
SetRemoveNothing(its, tmp_set, j) == tmp_set

\* tmp_set.remove(items[j])
SetRemove(its, tmp_set, j) == {k \in tmp_set : ~SameElement(its, k, j)}

\* the outer loop looking at the first record only
OuterRangeFirstOnly(its) == Min(1, Len(its))

\* line 161: for i in range(0, len(items))
OuterRange(its) == Len(its)

RECURSIVE RemoveLoop(_, _, _, _)
\* lines 161-165 from the pair (i, j) on
RemoveLoop(its, i, j, tmp_set) ==
    IF i > OuterRange(its) THEN tmp_set
    ELSE IF j > Len(its) THEN RemoveLoop(its, i + 1, i + 2, tmp_set)
    ELSE IF /\ _is_duplicate(its[i].message, its[j].message, DUPLICATE_THRESHOLD)
            /\ InSet(its, tmp_set, j)
         THEN RemoveLoop(its, i, j + 1, SetRemove(its, tmp_set, j))
         ELSE RemoveLoop(its, i, j + 1, tmp_set)

\* tmp_set when the loops are over: the positions of its that survive
Survivors(its) == RemoveLoop(its, 1, 2, SetOfList(its))

\* the lists with exactly the elements of S, each once
Orderings(S) ==
    {f \in [1..Cardinality(S) -> S] : \A a, b \in DOMAIN f : a # b => f[a] # f[b]}

\* Log.remove_useless_logs: the values items may have after the call. Lines
\* 167-168 refill the list from a set, whose iteration order is not fixed.
remove_useless_logs(its) ==
    {[n \in DOMAIN f |-> its[f[n]]] : f \in Orderings(Survivors(its))}

----------------------------------------------------------------------------
(* The lists remove_useless_logs is tried on: the records of one application. *)

DedupMessages == {M1, M2, M3, Short, None}

InputLists ==
    UNION {
        {[i \in 1..n |-> MkLog(i, "A", "error", m[i], <<>>, 0)] :
            m \in [1..n -> DedupMessages]}
        : n \in 0..MaxItems}

InitDedup ==
    /\ given \in InputLists
    /\ items = given
    /\ once = <<>>
    /\ pass = 0
    /\ s1 = None /\ s2 = None /\ called = FALSE /\ ret = FALSE
    /\ DaemonIdle

FirstPass ==
    /\ pass = 0
    /\ items' \in remove_useless_logs(items)
    /\ once' = items'
    /\ pass' = 1
    /\ UNCHANGED <<given, dupVars, daemonVars>>

SecondPass ==
    /\ pass = 1
    /\ items' \in remove_useless_logs(items)
    /\ pass' = 2
    /\ UNCHANGED <<given, once, dupVars, daemonVars>>

NextDedup == FirstPass \/ SecondPass

SpecDedup == InitDedup /\ [][NextDedup]_vars

----------------------------------------------------------------------------
Srcs(its) == {its[i].src : i \in DOMAIN its}

NearDuplicate(a, b) == _is_duplicate(a.message, b.message, DUPLICATE_THRESHOLD)

Dropped(j) == pass >= 1 /\ j \in DOMAIN given /\ given[j].src \notin Srcs(once)

\* C5, as claimed: every record the first application drops is a near-duplicate
\* of an earlier record of the input that the application keeps.
C5_DroppedHasKeptEarlierDuplicate ==
    \A j \in DOMAIN given :
        Dropped(j) =>
            \E i \in 1..(j - 1) :
                /\ given[i].src \in Srcs(once)
                /\ NearDuplicate(given[i], given[j])

\* C7: applying remove_useless_logs to its own output, whatever order the output
\* came in, removes nothing: the second output has the records of the first,
\* each once.
C7_Idempotent ==
    pass = 2 => (Srcs(items) = Srcs(once) /\ Len(items) = Len(once))

\* the second application ran on an output that lost a record and that came out
\* in another order than the input's
C7_Witness ==
    /\ pass = 2
    /\ Len(once) >= 2
    /\ Len(once) < Len(given)
    /\ once[1].src > once[2].src

----------------------------------------------------------------------------
(* Log.__eq__ applied to two Log objects, or to one object and itself. *)

EqLogs ==
    {MkLog(0, a, sev, m, st, d) :
        a \in {"A", "B"}, sev \in {"error", "fatal"}, m \in {M1, Short},
        st \in {<<>>, Short}, d \in {0, 1}}

\* given holds the operands: two objects, or one object compared with itself
InitEq ==
    /\ given \in {<<[x EXCEPT !.src = 1]>> : x \in EqLogs}
               \cup {<<[x EXCEPT !.src = 1], [y EXCEPT !.src = 2]>> :
                        x \in EqLogs, y \in EqLogs}
    /\ items = <<>> /\ once = <<>> /\ pass = 0
    /\ s1 = None /\ s2 = None /\ called = FALSE /\ ret = FALSE
    /\ DaemonIdle

\* self == other, which Python answers with self.__eq__(other)
CallEq ==
    /\ ~called
    /\ called' = TRUE
    /\ ret' = Log__eq__(given[1], given[Len(given)])
    /\ UNCHANGED <<s1, s2, dedupVars, daemonVars>>

NextEq == CallEq

SpecEq == InitEq /\ [][NextEq]_vars

SameFields(x, y) ==
    /\ x.application = y.application
    /\ x.severity = y.severity
    /\ x.date = y.date
    /\ x.message = y.message
    /\ x.stacktrace = y.stacktrace

\* C11, as claimed: two Log records compare equal exactly when their
\* application, severity, date, message and stacktrace are pairwise equal.
C11_EqualIffSameFields ==
    called => (ret <=> SameFields(given[1], given[Len(given)]))

----------------------------------------------------------------------------
(* ElasticSearchLoader *)

\* A document of the backend: the fields _load_json projects. ts is the instant
\* the backend indexed under @timestamp (what its range filter and its sort
\* read); fmt is the textual form of @timestamp in _source: "frac" for
\* %Y-%m-%dT%H:%M:%S.%fZ, "whole" for %Y-%m-%dT%H:%M:%SZ, "other" for any other.
\* consumed counts (up to 2) the times load() appended the document to a batch;
\* lost says that a poll cycle consumed the document and then failed.
MkDoc(application, message, ts, fmt) ==
    [application |-> application, severity |-> "error", message |-> message,
     stacktrace |-> None, ts |-> ts, fmt |-> fmt, consumed |-> 0, lost |-> FALSE]

\* what tells the documents of the model apart
DocKey(doc) == <<doc.application, doc.ts, doc.fmt>>

\* Log._parse_timestamp, lines 126-134; today is what datetime.today() reads
_parse_timestamp(doc, today) ==
    IF doc.fmt = "frac" THEN doc.ts
    ELSE IF doc.fmt = "whole" THEN doc.ts
    ELSE today

\* Log.__init__, lines 101-106, on the fields of a document (line 242); doc
\* remembers which document the object was made from
Log(src, doc, today) ==
    [src |-> src, application |-> doc.application, severity |-> doc.severity,
     message |-> doc.message,
     stacktrace |-> IF doc.stacktrace = None THEN <<>> ELSE doc.stacktrace,
     date |-> _parse_timestamp(doc, today),
     doc |-> DocKey(doc)]

\* the query of lines 189-217: the range filter "gt" on @timestamp
RangeGt(index, since) == {i \in DOMAIN index : index[i].ts > since}

RECURSIVE SortAsc(_, _)
\* "sort": @timestamp ascending; equal instants come in the order of the index
SortAsc(index, S) ==
    IF S = {} THEN <<>>
    ELSE LET m == CHOOSE i \in S :
                    \A k \in S : \/ index[i].ts < index[k].ts
                                 \/ (index[i].ts = index[k].ts /\ i <= k)
         IN  <<m>> \o SortAsc(index, S \ {m})

\* _load_json when the request succeeds: "from": 0, "size": limit of the hits,
\* as positions in the index
_load_json(index, since, size) ==
    LET hits == SortAsc(index, RangeGt(index, since))
    IN  SubSeq(hits, 1, Min(size, Len(hits)))

\* ElasticSearchLoader._parse, lines 232-245
_parse(index, data, today, src) ==
    [n \in DOMAIN data |-> Log(src, index[data[n]], today)]

\* A dict application -> list, as the list of its entries in insertion order.
HasKey(d, k) == \E n \in DOMAIN d : d[n].key = k
Get(d, k) == d[CHOOSE n \in DOMAIN d : d[n].key = k].val
Keys(d) == {d[n].key : n \in DOMAIN d}

\* the records grouped by severity
KeyOfSeverity(log) == log.severity

\* lines 259-260: the key a record is filed under
KeyOf(log) == log.application

\* lines 259-260: result.setdefault(log.application, []); result.get(..).append(log)
DictAppend(d, log) ==
    IF HasKey(d, KeyOf(log))
    THEN [n \in DOMAIN d |->
            IF d[n].key = KeyOf(log)
            THEN [key |-> d[n].key, val |-> Append(d[n].val, log)]
            ELSE d[n]]
    ELSE Append(d, [key |-> KeyOf(log), val |-> <<log>>])

\* the cursor taking the record's date whatever it was
CursorAfterAssign(log, cur) == log.date

\* line 261: self._last_update_time = max(log.date, self._last_update_time)
CursorAfter(log, cur) == Max(log.date, cur)

RECURSIVE Consume(_, _, _)
\* the for loop of lines 258-261 over the parsed page
Consume(lgs, res, cur) ==
    IF lgs = <<>> THEN [result |-> res, cursor |-> cur]
    ELSE Consume(Tail(lgs), DictAppend(res, lgs[1]), CursorAfter(lgs[1], cur))

RECURSIVE DedupAll(_)
\* lines 265-266: remove_useless_logs on every list of the dict; the dicts that
\* may come out
DedupAll(d) ==
    IF d = <<>> THEN {<<>>}
    ELSE {<<[key |-> d[1].key, val |-> v]>> \o rest :
            v \in remove_useless_logs(d[1].val), rest \in DedupAll(Tail(d))}

RECURSIVE Flatten(_)
\* the records of a dict in the order the loops of lines 70-72 visit them
Flatten(d) == IF d = <<>> THEN <<>> ELSE d[1].val \o Flatten(Tail(d))

----------------------------------------------------------------------------
(* The daemon. *)

\* Documents of one application with one message: any instant after the
\* daemon's start, parsable or not.
TimedDocs ==
    {MkDoc("A", Rep("e", 10), t, f) : t \in 1..MaxTime, f \in {"frac", "other"}}

\* Documents of two applications with the messages M1, M2, M3, at parsable
\* instants after the daemon's start: M1 at 1, M2 at 2, M3 at 3.
BatchDocs ==
    {MkDoc(a, <<M1, M2, M3>>[k], k, "frac") : a \in {"A", "B"}, k \in 1..3}

Producible ==
    CASE producers = "timed" -> TimedDocs
      [] producers = "batch" -> BatchDocs
      [] OTHER -> {}

\* the iteration of the Watcher loop starting: nothing called in it yet
FreshIteration(h, n) ==
    [h EXCEPT !.cycle = n, !.errors = 0, !.uploads = <<>>, !.sendFailed = FALSE,
              !.fetchFailed = FALSE, !.pages = 0, !.fetched = <<>>,
              !.lastPage = <<>>]

\* after ElasticSearchLoader.__init__ (line 176) and Watcher.__init__; instants
\* are counted from the reading of the clock at line 176
InitDaemon(kind) ==
    /\ pc = "start"
    /\ cursor = 0
    /\ limit \in 1..MaxPageSize
    /\ producers = kind
    /\ source = <<>>
    /\ result = <<>>
    /\ logs = <<>>
    /\ hist = [info |-> 0, infoFailed |-> FALSE, cycle |-> 0,
               errors |-> 0, uploads |-> <<>>, sendFailed |-> FALSE,
               fetchFailed |-> FALSE, anyFetchFailed |-> FALSE,
               pages |-> 0, fetched |-> <<>>, lastPage |-> <<>>, late |-> FALSE]
    /\ s1 = None /\ s2 = None /\ called = FALSE /\ ret = FALSE
    /\ DedupIdle

\* the index with doc added: behind every document of an instant up to doc's
IndexWith(index, doc) ==
    LET before == Cardinality({i \in DOMAIN index : index[i].ts <= doc.ts})
    IN  SubSeq(index, 1, before) \o <<doc>> \o SubSeq(index, before + 1, Len(index))

\* A producer's document is indexed by the backend. (While watcher() is in
\* send_info, send_data or sleep it does not read the backend: a document
\* indexed then is one indexed before the next request.)
Arrive ==
    /\ pc \in {"start", "load"}
    /\ Len(source) < MaxRecords
    /\ \E doc \in Producible : source' = IndexWith(source, doc)
    /\ hist' = [hist EXCEPT !.late = @ \/ pc # "start"]
    /\ UNCHANGED <<pc, cursor, limit, producers, result, logs, dupVars, dedupVars>>

\* line 280: send_info, outside any try; then line 283 of the first iteration
SendInfo ==
    /\ pc = "start"
    /\ \E ok \in BOOLEAN :
        IF ok
        THEN /\ pc' = "load"
             /\ hist' = FreshIteration([hist EXCEPT !.info = @ + 1], 1)
        ELSE /\ pc' = "crashed"
             /\ hist' = [hist EXCEPT !.info = @ + 1, !.infoFailed = TRUE]
    /\ logs' = <<>>
    /\ result' = <<>>
    /\ UNCHANGED <<cursor, limit, producers, source, dupVars, dedupVars>>

\* What datetime.today() may read while a page is parsed. The instants of the
\* model are 0..MaxTime with 0 the reading of line 176; the wall clock of the
\* host and the instants producers stamp are not tied to each other. A page
\* whose timestamps all parse reads no clock.
Clock(index, data) ==
    IF \E n \in DOMAIN data : index[data[n]].fmt = "other" THEN 0..MaxTime ELSE {0}

\* the index with the documents of a page counted as consumed once more
Counted(index, data) ==
    [i \in DOMAIN index |->
        IF \E n \in DOMAIN data : data[n] = i
        THEN [index[i] EXCEPT !.consumed = Min(@ + 1, 2)]
        ELSE index[i]]

\* the while loop going round again whatever the page holds
AfterPageAgain(data) == "load"

\* lines 254-255: an empty page breaks out of the loop, any other goes round
AfterPage(data) == IF Len(data) = 0 THEN "send" ELSE "load"

\* one turn of load()'s while loop (lines 251-263) whose request succeeds; on an
\* empty page the loop ends, lines 265-268 run and load() returns to line 285
LoadPage ==
    /\ pc = "load"
    /\ LET data == _load_json(source, cursor, limit) IN
       IF Len(data) = 0
       THEN /\ logs' \in DedupAll(result)
            /\ result' = <<>>
            /\ pc' = AfterPage(data)
            /\ hist' = [hist EXCEPT !.fetched = result, !.lastPage = <<>>]
            /\ UNCHANGED <<cursor, source>>
       ELSE /\ Len(Flatten(result)) + Len(data) <= MaxBatch
            /\ \E today \in Clock(source, data) :
                LET lgs == _parse(source, data, today, hist.cycle)
                    out == Consume(lgs, result, cursor)
                IN  /\ result' = out.result
                    /\ cursor' = out.cursor
                    /\ hist' = [hist EXCEPT
                          !.pages = @ + 1,
                          !.lastPage = [n \in DOMAIN lgs |-> lgs[n].date]]
            /\ source' = Counted(source, data)
            /\ pc' = AfterPage(data)
            /\ UNCHANGED logs
    /\ UNCHANGED <<limit, producers, dupVars, dedupVars>>

\* what watcher()'s logs holds after load() raised, given load()'s partial result
LogsAfterFailedLoadPartial(res) == res

\* line 283: logs = {} stands, the assignment of line 285 never happened
LogsAfterFailedLoad(res) == <<>>

\* send_error succeeds, or raises out of the except block and out of watcher()
AfterSendError(ok, next) == IF ok THEN next ELSE "crashed"

\* the index with the documents marked that the dict res holds a record of
Lost(index, res) ==
    [i \in DOMAIN index |->
        IF /\ index[i].consumed >= 1
           /\ \E n \in DOMAIN res : \E k \in DOMAIN res[n].val :
                 res[n].val[k].doc = DocKey(index[i])
        THEN [index[i] EXCEPT !.lost = TRUE]
        ELSE index[i]]

\* one turn of load()'s while loop whose request raises: load() is left, the
\* except block of lines 286-288 runs
LoadFail ==
    /\ pc = "load"
    /\ \E ok \in BOOLEAN : pc' = AfterSendError(ok, "send")
    /\ logs' = LogsAfterFailedLoad(result)
    /\ result' = <<>>
    /\ source' = Lost(source, result)
    /\ hist' = [hist EXCEPT !.errors = @ + 1, !.fetchFailed = TRUE,
                            !.anyFetchFailed = TRUE, !.lastPage = <<>>]
    /\ UNCHANGED <<cursor, limit, producers, dupVars, dedupVars>>

RECURSIVE UploadCallsFirstOfEach(_)
\* one upload for each application: its first record
UploadCallsFirstOfEach(its) ==
    IF its = <<>> THEN <<>>
    ELSE SubSeq(its[1].val, 1, 1) \o UploadCallsFirstOfEach(Tail(its))

\* lines 70-90: one urlopen for every log of every application, in the order
\* the two loops visit them
UploadCalls(its) == Flatten(its)

\* an empty dict answered with one upload that says so
UploadsOnEmptyNotice(its) == <<MkLog(0, "none", "info", None, <<>>, 0)>>

\* lines 67-68: return, nothing is uploaded
UploadsOnEmpty(its) == <<>>

\* lines 290-294: send_data(logs); an upload that raises ends send_data and runs
\* the except block
SendData ==
    /\ pc = "send"
    /\ LET flat == UploadCalls(logs) IN
       IF Len(logs) = 0
       THEN /\ pc' = "sleep"
            /\ hist' = [hist EXCEPT !.uploads = UploadsOnEmpty(logs),
                                    !.lastPage = <<>>]
       ELSE \/ /\ pc' = "sleep"
               /\ hist' = [hist EXCEPT !.uploads = flat, !.lastPage = <<>>]
            \/ \E n \in 1..Len(flat), ok \in BOOLEAN :
                 /\ pc' = AfterSendError(ok, "sleep")
                 /\ hist' = [hist EXCEPT !.uploads = SubSeq(flat, 1, n),
                                         !.sendFailed = TRUE,
                                         !.errors = @ + 1,
                                         !.lastPage = <<>>]
    /\ UNCHANGED <<cursor, limit, producers, source, result, logs, dupVars, dedupVars>>

\* the dict of the iteration before still bound to logs
LogsOfNewIterationKept(prev) == prev

\* line 283: logs = {}
LogsOfNewIteration(prev) == <<>>

\* the loop starting over from line 280
AfterSleepFromTheTop(cycle) == "start"

\* line 282: while True goes back to line 283, below send_info
AfterSleep(cycle) == "load"

\* line 296: time.sleep(DELAY_SECONDS), then line 283 of the next iteration
Sleep ==
    /\ pc = "sleep"
    /\ hist.cycle < MaxCycles
    /\ pc' = AfterSleep(hist.cycle)
    /\ logs' = LogsOfNewIteration(logs)
    /\ hist' = FreshIteration(hist, hist.cycle + 1)
    /\ UNCHANGED <<cursor, limit, producers, source, result, dupVars, dedupVars>>

Next == Arrive \/ SendInfo \/ LoadPage \/ LoadFail \/ SendData \/ Sleep

Init == InitDaemon("timed")

Spec == Init /\ [][Next]_vars

InitBatch == InitDaemon("batch")

SpecBatch == InitBatch /\ [][Next]_vars

----------------------------------------------------------------------------
Range(f) == {f[n] : n \in DOMAIN f}
SetMax(S) == CHOOSE x \in S : \A y \in S : y <= x

\* C1, as claimed: when no fetch fails, every document whose instant lies after
\* the start cursor (0) and at or before the cursor has been consumed. Stated
\* for the runs where the documents were all indexed before the first request
\* and every timestamp parses.
C1_NoLogMissed ==
    (/\ ~hist.anyFetchFailed
     /\ ~hist.late
     /\ \A i \in DOMAIN source : source[i].fmt # "other")
        => \A i \in DOMAIN source :
              (source[i].ts > 0 /\ source[i].ts <= cursor)
                  => source[i].consumed >= 1

\* C2, as claimed: no document is appended to a batch more than once, in one
\* poll cycle or across poll cycles.
C2_NoRecordTwice ==
    \A i \in DOMAIN source : source[i].consumed <= 1

\* C3: the cursor never decreases; a step that consumes a page leaves it at the
\* maximum of its previous value and the dates of the page's records, and no
\* other step (a failed fetch, an empty page, a send, a sleep) changes it.
C3_CursorMonotone ==
    [][/\ cursor' >= cursor
       /\ IF hist'.pages = hist.pages + 1
          THEN cursor' = SetMax({cursor} \cup Range(hist'.lastPage))
          ELSE cursor' = cursor]_vars

\* a page was consumed with a record dated before the cursor it met
C3_Witness ==
    /\ pc = "load"
    /\ hist.lastPage # <<>>
    /\ \E n \in DOMAIN hist.lastPage : hist.lastPage[n] < cursor
    /\ \E n \in DOMAIN hist.lastPage : hist.lastPage[n] = cursor
    /\ hist.cycle = 2

NoTwoNearDuplicates(lst) ==
    \A i, j \in DOMAIN lst : i # j => ~NearDuplicate(lst[i], lst[j])

AllNearDuplicates(lst) ==
    \A i, j \in DOMAIN lst : i # j => NearDuplicate(lst[i], lst[j])

UploadsOf(a) == Cardinality({n \in DOMAIN hist.uploads : hist.uploads[n].application = a})

\* C6: in an iteration whose poll cycle returned, the records of one application
\* handed to send_data hold no two near-duplicates and at least one record of
\* every application fetched; an application whose fetched messages are all
\* pairwise near-duplicates has exactly one record there. send_data makes at
\* most one upload call per record, and when no upload fails exactly one: one
\* call for such an application.
C6_OnePerDuplicateGroup ==
    (pc \in {"send", "sleep", "crashed"} /\ ~hist.fetchFailed /\ hist.cycle >= 1)
        => /\ Keys(logs) = Keys(hist.fetched)
           /\ \A a \in Keys(logs) :
                /\ NoTwoNearDuplicates(Get(logs, a))
                /\ Len(Get(logs, a)) >= 1
                /\ AllNearDuplicates(Get(hist.fetched, a)) => Len(Get(logs, a)) = 1
                /\ UploadsOf(a) <= Len(Get(logs, a))
                /\ (pc = "sleep" /\ ~hist.sendFailed)
                      => UploadsOf(a) = Len(Get(logs, a))

\* send_data ran without a failure on a batch in which an application had two
\* near-duplicate records fetched
C6_Witness ==
    /\ pc = "sleep" /\ ~hist.fetchFailed /\ ~hist.sendFailed
    /\ \E a \in Keys(hist.fetched) :
          /\ Len(Get(hist.fetched, a)) >= 2
          /\ AllNearDuplicates(Get(hist.fetched, a))
          /\ UploadsOf(a) = 1

\* C8: in an iteration whose fetch failed, after any number of consumed pages,
\* send_error is called exactly once and no upload call is made.
C8_FetchFailureOneAlert ==
    hist.fetchFailed
        => /\ hist.errors = 1
           /\ hist.uploads = <<>>
           /\ pc \in {"send", "sleep", "crashed"}

\* an iteration ended whose fetch failed after a page was consumed
C8_Witness ==
    /\ hist.fetchFailed
    /\ hist.pages >= 1
    /\ pc = "sleep"
    /\ hist.errors = 1

\* C9, as claimed: once in the loop, no failure of the backend, of an upload or
\* of send_error ends watcher().
C9_LoopNeverTerminates ==
    hist.cycle >= 1 => pc # "crashed"

\* C10, as claimed: a failed send_info does not keep watcher() from entering the
\* loop.
C10_StartupBestEffort ==
    hist.infoFailed => pc # "crashed"

C13_EmptySendNoCalls ==
    [][(pc = "send" /\ Len(logs) = 0)
          => /\ pc' = "sleep"
             /\ hist'.uploads = <<>>
             /\ hist'.errors = hist.errors
             /\ hist'.info = hist.info
             /\ UNCHANGED <<cursor, limit, source, result, logs>>]_vars

\* send_data returned on the empty dict of a second cycle that fetched nothing,
\* after a first cycle that had moved the cursor
C13_Witness ==
    /\ pc = "sleep"
    /\ hist.cycle = 2
    /\ ~hist.fetchFailed
    /\ Len(logs) = 0
    /\ hist.uploads = <<>>
    /\ cursor > 0

\* a request of load() that succeeds with an empty page
EmptyPageStep ==
    /\ pc = "load"
    /\ Len(_load_json(source, cursor, limit)) = 0
    /\ source' = source
    /\ ~hist'.fetchFailed

\* C15: the first empty page ends the poll cycle: load() returns without
\* another request (no page is requested again before the next iteration), and
\* the empty page leaves the cursor as it was; when the empty page is the first
\* page of the cycle the batch returned is empty, and the cursor, which only a
\* consumed page moves, is as it was before the cycle.
C15_EmptyPageEndsCycle ==
    [][/\ EmptyPageStep
            => /\ pc' = "send"
               /\ cursor' = cursor
               /\ hist'.pages = hist.pages
               /\ hist.pages = 0 => logs' = <<>>
       /\ (pc \in {"send", "sleep"} /\ hist'.cycle = hist.cycle)
            => /\ hist'.pages = hist.pages
               /\ cursor' = cursor
               /\ source' = source
       /\ (hist'.cycle = hist.cycle /\ hist'.pages = hist.pages)
            => cursor' = cursor]_vars

\* a second cycle met an empty first page although the backend holds documents:
\* they are all at or before the cursor
C15_Witness ==
    /\ pc = "send"
    /\ hist.cycle = 2
    /\ hist.pages = 0
    /\ ~hist.fetchFailed
    /\ logs = <<>>
    /\ Len(source) >= 1
    /\ cursor > 0

\* the Log objects a dict holds
RecordsOf(d) == Range(Flatten(d))

\* C16: every record handed to send_data, and every record uploaded, is a Log
\* object that load() made during the same iteration of the loop (src is the
\* iteration a Log was parsed in) and that this iteration's poll cycle
\* returned; while a cycle runs the dict bound to logs is empty and the dict it
\* fills holds objects of this iteration only.
C16_BatchBuiltFresh ==
    hist.cycle >= 1
        => /\ \A r \in RecordsOf(logs) \cup RecordsOf(result) \cup Range(hist.uploads) :
                 r.src = hist.cycle
           /\ RecordsOf(logs) \subseteq RecordsOf(hist.fetched)
           /\ Range(hist.uploads) \subseteq RecordsOf(logs)
           /\ pc = "load" => logs = <<>>
           /\ pc # "load" => result = <<>>

\* the second iteration uploaded the one record its cycle fetched, after the
\* first iteration had consumed another
C16_Witness ==
    /\ pc = "sleep"
    /\ hist.cycle = 2
    /\ Len(hist.uploads) = 1
    /\ hist.pages = 1
    /\ Len(source) = 2
    /\ \A i \in DOMAIN source : source[i].consumed = 1

\* C17: send_info is called once in a run: never before watcher() is entered,
\* once by the time the loop is entered, and never again in a later iteration;
\* until it has been called no request was made to the backend.
C17_StartupOnce ==
    /\ hist.info <= 1
    /\ hist.cycle >= 1 => hist.info = 1
    /\ hist.info = 0
          => /\ pc = "start"
             /\ hist.cycle = 0
             /\ hist.pages = 0
             /\ ~hist.anyFetchFailed
             /\ \A i \in DOMAIN source : source[i].consumed = 0

\* the second iteration has fetched and sent, with send_info called once
C17_Witness ==
    /\ pc = "sleep"
    /\ hist.cycle = 2
    /\ hist.pages >= 1
    /\ hist.info = 1

RECURSIVE TotalRecords(_)
\* how many records the lists of a dict hold together
TotalRecords(d) == IF d = <<>> THEN 0 ELSE Len(d[1].val) + TotalRecords(Tail(d))

\* the uploads made for application a, in the order they were made
UploadedFor(a) == SelectSeq(hist.uploads, LAMBDA r : r.application = a)

\* C18: when send_data has run on a dict that is not empty and no upload
\* failed, the uploads made are as many as the records of the dict, and those
\* made for an application are the records of its list, each once and in the
\* list's order.
C18_OneUploadPerRecord ==
    (pc = "sleep" /\ ~hist.sendFailed /\ Len(logs) > 0)
        => /\ Len(hist.uploads) = TotalRecords(logs)
           /\ \A a \in Keys(logs) : UploadedFor(a) = Get(logs, a)

\* send_data ran without a failure on a dict with two records of one
\* application
C18_Witness ==
    /\ pc = "sleep" /\ ~hist.sendFailed
    /\ Len(logs) = 1
    /\ Len(logs[1].val) = 2
    /\ Len(hist.uploads) = 2

\* the list a dict holds for application a: none is an empty one
GroupOf(d, a) == IF HasKey(d, a) THEN Get(d, a) ELSE <<>>

\* every list of the dict holds records of its key's application only, and no
\* two entries have the same key
GroupedByApplication(d) ==
    /\ \A n \in DOMAIN d : \A k \in DOMAIN d[n].val : d[n].val[k].application = d[n].key
    /\ \A n, m \in DOMAIN d : d[n].key = d[m].key => n = m

\* the records of a page that is consumed go to the lists of their
\* applications, each to the end of one list, and no list changes otherwise
PageFiledByApplication ==
    hist'.pages = hist.pages + 1
        => LET data == _load_json(source, cursor, limit) IN
           \E today \in Clock(source, data) :
               LET lgs == _parse(source, data, today, hist.cycle) IN
               /\ Keys(result') = Keys(result) \cup {lgs[n].application : n \in DOMAIN lgs}
               /\ \A a \in Keys(result') :
                     GroupOf(result', a) =
                        GroupOf(result, a) \o SelectSeq(lgs, LAMBDA r : r.application = a)

\* a record of application a that was fetched and is not handed to send_data
\* has a near-duplicate among the other fetched records of application a
DroppedWithinApplication ==
    (pc \in {"send", "sleep", "crashed"} /\ ~hist.fetchFailed /\ hist.cycle >= 1)
        => \A a \in Keys(hist.fetched) :
              LET got == Get(hist.fetched, a) IN
              \A j \in DOMAIN got :
                  got[j] \notin Range(GroupOf(logs, a))
                      => \E i \in DOMAIN got : i # j /\ NearDuplicate(got[i], got[j])

\* C20: grouping and deduplication are per application: in the dict load()
\* fills, in the one it returns and in the one send_data gets, every record of
\* the list keyed by a has application a and no application has two lists;
\* every record of a consumed page is appended to exactly one list, that of its
\* application; and a fetched record is only dropped when another fetched
\* record of its own application is a near-duplicate of it.
C20_PerApplication ==
    [][/\ GroupedByApplication(result') /\ GroupedByApplication(logs')
       /\ GroupedByApplication(hist'.fetched)
       /\ PageFiledByApplication
       /\ DroppedWithinApplication']_vars

\* send_data got the records of two applications whose messages are
\* near-duplicates of each other: both were kept
C20_Witness ==
    /\ pc = "sleep" /\ ~hist.fetchFailed
    /\ Len(logs) = 2
    /\ Len(logs[1].val) = 1 /\ Len(logs[2].val) = 1
    /\ NearDuplicate(logs[1].val[1], logs[2].val[1])
    /\ Len(hist.uploads) = 2

\* C19, as claimed: when a fetch fails after a page was consumed in the same
\* poll cycle, the cursor stays where the consumed pages left it, through the
\* failure and the rest of the iteration; the partial batch is dropped and
\* nothing is uploaded in the iteration; and no record of a document consumed
\* in such a cycle is handed to send_data or uploaded, then or later.
C19_FailedCycleRecordsGone ==
    [][/\ (pc = "load" /\ hist.pages >= 1 /\ hist'.fetchFailed)
            => /\ cursor' = cursor
               /\ cursor' >= SetMax({0} \cup {r.date : r \in RecordsOf(result)})
               /\ result' = <<>>
               /\ logs' = <<>>
       /\ (hist.fetchFailed /\ hist.pages >= 1 /\ hist'.cycle = hist.cycle)
            => /\ cursor' = cursor
               /\ logs' = <<>>
               /\ hist'.uploads = <<>>
       /\ \A i \in DOMAIN source' :
             source'[i].lost
                => \A r \in RecordsOf(logs') \cup Range(hist'.uploads) :
                      r.doc # DocKey(source'[i])]_vars

====
